---- MODULE Spec2Model ----
(***************************************************************************)
(* Valuation micro-service of octavibou/lead-valuation.                    *)
(*                                                                         *)
(* The repository holds three variants of the same POST                    *)
(* /valuation/v1/price-m2 pipeline; they differ in the provider:           *)
(*   "strict"   src/src/index.ts   1-167   fetchPriceM2WithOpenAI (JSON)   *)
(*   "browsing" src/src/index.ts 169-363   fetchPriceM2WithBrowsing        *)
(*   "freetext" src/unnamed/part_000       fetchPriceM2WithOpenAI (text)   *)
(* Strings are sequences of one-character strings.  A nullable number is   *)
(* <<>> (null) or <<n>>.  Areas and JSON numbers are counted in tenths so  *)
(* that Math.round has something to round; the product of a price and an   *)
(* area is the IEEE-754 double the code computes.                          *)
(***************************************************************************)
EXTENDS Integers, Sequences, FiniteSets, TLC

VARIABLES strategy, apiKey, now, cache, leads, req, prev, nreq, text, parsed,
          input, output, lastUpsert, gatewayKey

vars == <<strategy, apiKey, now, cache, leads, req, prev, nreq, text, parsed,
          input, output, lastUpsert, gatewayKey>>

(***************************** bounds **************************************)
\* number of request slots (requests that can be in flight together)
NumReqs == 2
\* number of requests received in one behaviour
MaxRequests == 1
\* last day the clock reaches
MaxTime == 91
\* length of the provider texts that are enumerated exhaustively
MaxTextLen == 4
MaxTokens == 4

(************************* program constants *******************************)
TTL_DAYS == 90
CONF_LLM == 85
CONF_OTHER == 60
CONF_NONE == 0
MIN_DIGITS == 3
MAX_DIGITS == 6
MAX_FRAC == 3
CP_LEN == 5
MANTISSA_BITS == 52
UNIT_BITS == 57

(***************************** values **************************************)
Null == <<>>
Num(n) == <<n>>
Val(x) == x[1]
Abs(n) == IF n < 0 THEN -n ELSE n
RECURSIVE Pow2(_)
Pow2(k) == IF k = 0 THEN 1 ELSE 2 * Pow2(k - 1)
\* JavaScript truthiness of a number | null
Truthy(x) == x # Null /\ Val(x) # 0

Digits == {"0", "1", "2", "3", "4", "5", "6", "7", "8", "9"}
Letters ==
  {"a", "b", "c", "d", "e", "f", "g", "h", "i", "j", "k", "l", "m", "n", "o",
   "p", "q", "r", "s", "t", "u", "v", "w", "x", "y", "z",
   "A", "B", "C", "D", "E", "F", "G", "H", "I", "J", "K", "L", "M", "N", "O",
   "P", "Q", "R", "S", "T", "U", "V", "W", "X", "Y", "Z"}
\* the regular expression class \w
WordChars == Digits \cup Letters \cup {"_"}

DigitVal(c) ==
  CASE c = "0" -> 0 [] c = "1" -> 1 [] c = "2" -> 2 [] c = "3" -> 3
    [] c = "4" -> 4 [] c = "5" -> 5 [] c = "6" -> 6 [] c = "7" -> 7
    [] c = "8" -> 8 [] c = "9" -> 9

\* Number() of a string of decimal digits
RECURSIVE DigitsToNat(_)
DigitsToNat(s) ==
  IF s = <<>> THEN 0
  ELSE 10 * DigitsToNat(SubSeq(s, 1, Len(s) - 1)) + DigitVal(s[Len(s)])

RECURSIVE Pow10(_)
Pow10(k) == IF k = 0 THEN 1 ELSE 10 * Pow10(k - 1)

\* Math.round(num / den) for den > 0: the nearest integer, halves upwards
MathRound(num, den) == (2 * num + den) \div (2 * den)

\* length of the run of digits of s that starts at index i
RECURSIVE DigitRun(_, _)
DigitRun(s, i) ==
  IF i > Len(s) \/ s[i] \notin Digits THEN 0 ELSE 1 + DigitRun(s, i + 1)

Min(a, b) == IF a < b THEN a ELSE b

(************************ postal code extractor ****************************)
\* \b at the gap before index i of s
WordBoundary(s, i) ==
  LET before == i > 1 /\ s[i - 1] \in WordChars
      after == i <= Len(s) /\ s[i] \in WordChars
  IN before # after


\* CP_REGEX without the closing \b
CP_REGEXOpenEnded(address) ==
  LET hits == {i \in 1..Len(address) :
                 /\ WordBoundary(address, i)
                 /\ DigitRun(address, i) >= CP_LEN}
  IN IF hits = {} THEN <<>>
     ELSE LET i == CHOOSE j \in hits : \A k \in hits : j <= k
          IN SubSeq(address, i, i + CP_LEN - 1)

\* address.match(CP_REGEX)?.[0] ?? "" with CP_REGEX = /\b\d{5}\b/
CP_REGEX(address) ==
  LET hits == {i \in 1..Len(address) :
                 /\ WordBoundary(address, i)
                 /\ DigitRun(address, i) >= CP_LEN
                 /\ WordBoundary(address, i + CP_LEN)}
  IN IF hits = {} THEN <<>>
     ELSE LET i == CHOOSE j \in hits : \A k \in hits : j <= k
          IN SubSeq(address, i, i + CP_LEN - 1)

\* String.prototype.trim, for the blank this model writes
RECURSIVE Trim(_)
Trim(s) ==
  IF s = <<>> THEN s
  ELSE IF s[1] = " " THEN Trim(Tail(s))
  ELSE IF s[Len(s)] = " " THEN Trim(SubSeq(s, 1, Len(s) - 1))
  ELSE s

\* body.postal_code || (body.address.match(CP_REGEX)?.[0] ?? "").trim()
ExtractCP(body) ==
  IF body.postal_code # <<>> THEN body.postal_code
  ELSE Trim(CP_REGEX(body.address))

(******************** provider: free text (part_000) ***********************)
NoMatch == [found |-> FALSE, int |-> <<>>, sep |-> "", frac |-> <<>>]

\* text.match(/(\d{3,6}(?:[.,]\d{1,3})?)/): the leftmost match, greedy
MatchNumber(t) ==
  LET starts == {i \in 1..Len(t) : DigitRun(t, i) >= MIN_DIGITS}
  IN IF starts = {} THEN NoMatch
     ELSE LET i == CHOOSE j \in starts : \A k \in starts : j <= k
              m == Min(MAX_DIGITS, DigitRun(t, i))
              j == i + m
              hasFrac == /\ j <= Len(t)
                         /\ t[j] \in {".", ","}
                         /\ DigitRun(t, j + 1) >= 1
              f == IF hasFrac THEN Min(MAX_FRAC, DigitRun(t, j + 1)) ELSE 0
          IN [found |-> TRUE,
              int |-> SubSeq(t, i, j - 1),
              sep |-> IF hasFrac THEN t[j] ELSE "",
              frac |-> IF hasFrac THEN SubSeq(t, j + 1, j + f) ELSE <<>>]

\* Math.round(Number(match[1].replace(/\./g, "").replace(",", "."))):
\* a "." is dropped, so its digits join the integer; a "," becomes the
\* decimal point
RoundNormalized(m) ==
  IF m.sep = "," THEN
    MathRound(DigitsToNat(m.int) * Pow10(Len(m.frac)) + DigitsToNat(m.frac),
              Pow10(Len(m.frac)))
  ELSE DigitsToNat(m.int \o m.frac)

\* the parsing part of fetchPriceM2WithOpenAI of part_000, from the content
\* of the completion to the returned number | null
ParsePriceText(content) ==
  LET t == Trim(content)
      m == MatchNumber(t)
  IN IF t = <<>> THEN Null
     ELSE IF ~m.found THEN Null
     ELSE Num(RoundNormalized(m))

(****************** provider: JSON contents (index.ts) *********************)
\* a JSON value: undefined (field missing), null, a string, or a number
\* counted in tenths
JUndef == [t |-> "undefined", n10 |-> 0]
JNull == [t |-> "null", n10 |-> 0]
JStr == [t |-> "string", n10 |-> 0]
JNum(n10) == [t |-> "number", n10 |-> n10]

\* the content of a completion as JSON.parse sees it: not JSON (it throws),
\* the literal null, or an object with the fields the code reads
NotJson ==
  [kind |-> "notjson", na |-> FALSE, price_m2_eur_int |-> JUndef,
   idealista |-> JUndef, fotocasa |-> JUndef, realadvisor |-> JUndef]
JsonNull == [NotJson EXCEPT !.kind = "null"]
JsonNA == [NotJson EXCEPT !.kind = "object", !.na = TRUE]
JsonPrice(v) == [NotJson EXCEPT !.kind = "object", !.price_m2_eur_int = v]
JsonSources(a, b, c) ==
  [NotJson EXCEPT !.kind = "object", !.idealista = a, !.fotocasa = b,
                  !.realadvisor = c]

\* one pass of the loop of fetchPriceM2WithOpenAI of index.ts: the number
\* returned, or null when the loop goes on to the next prompt
StrictAccept(raw) ==
  LET v == raw.price_m2_eur_int
  IN IF /\ raw.kind = "object"
        /\ v.t = "number"
        /\ v.n10 # 0
        /\ v.n10 % 10 = 0
     THEN Num(v.n10 \div 10)
     ELSE Null

(***************** provider: arithmetic of the average *********************)
\* The numbers of the completion are doubles, and so are their sum and the
\* quotient.  A double is written here as the decimal it stands for and its
\* distance from it: the record [n, err, den, low, shift] is the number
\*   n / den + err / (den * 2^UNIT_BITS) + low / (den * 2^(UNIT_BITS + shift)),
\* where n / den is what exact arithmetic gives and err is what the
\* roundings added; 2^-UNIT_BITS is finer than the last place of every
\* double from 1/30 up.  low and shift are 0 except for what is left of a
\* cancellation (n = 0) divided by the count: that quotient is smaller than
\* 2^-UNIT_BITS, and low is what its own rounding added.
Double(n, err, den) ==
  [n |-> n, err |-> err, den |-> den, low |-> 0, shift |-> 0]
Negate(x) == [x EXCEPT !.n = -x.n, !.err = -x.err, !.low = -x.low]

\* 2^k mod m
RECURSIVE Pow2Mod(_, _)
Pow2Mod(k, m) == IF k = 0 THEN 1 % m ELSE (2 * Pow2Mod(k - 1, m)) % m

\* the e with 2^e <= n / den < 2^(e+1), for n >= 1
RECURSIVE ExponentFrom(_, _, _)
ExponentFrom(n, den, e) ==
  IF e >= 0
  THEN IF den * Pow2(e + 1) <= n THEN ExponentFrom(n, den, e + 1) ELSE e
  ELSE IF n * Pow2(-e) >= den THEN e ELSE ExponentFrom(n, den, e - 1)

\* the binary exponent of x, for x.n >= 1: the one of n / den, or the one
\* below when n / den is a power of two and x lies under it
Exponent(x) ==
  LET e == IF x.n >= x.den THEN ExponentFrom(x.n, x.den, 0)
           ELSE ExponentFrom(x.n, x.den, -1)
      onPower == IF e >= 0 THEN x.n = x.den * Pow2(e)
                 ELSE x.n * Pow2(-e) = x.den
  IN IF onPower /\ x.err < 0 THEN e - 1 ELSE e

\* x rounded to the nearest double, ties to the even mantissa, for
\* x.n >= 1.  In units of 1 / (den * 2^UNIT_BITS) the doubles of the
\* binade of x are the multiples of ulp; x is n * 2^UNIT_BITS + err, whose
\* remainder r and quotient parity odd follow from n mod den and
\* n mod 2 * den.
RoundPositive(x) ==
  LET j == Exponent(x) - MANTISSA_BITS + UNIT_BITS
      ulp == x.den * Pow2(j)
      k == UNIT_BITS - j
      rho == ((x.n % x.den) * Pow2Mod(k, x.den)) % x.den
      w == Pow2(j) * rho + x.err
      r == w % ulp
      qa == (((x.n % (2 * x.den)) * Pow2Mod(k, 2 * x.den)) % (2 * x.den))
              \div x.den
      odd == (qa + (w - r) \div ulp) % 2 = 1
  IN IF 2 * r < ulp \/ (2 * r = ulp /\ ~odd)
     THEN [x EXCEPT !.err = x.err - r]
     ELSE [x EXCEPT !.err = x.err + ulp - r]

\* x rounded to the nearest double, ties to the even mantissa, for x.n = 0
\* and x.err >= 1: x is what is left of a cancellation.  Its mantissa is
\* err * 2^shift / den rounded, with shift = 52 - Exponent(err / den); low
\* is den times the distance from err * 2^shift / den to that mantissa (0
\* for a sum, which is a double already).
RoundResidue(x) ==
  LET t == MANTISSA_BITS - ExponentFrom(x.err, x.den,
                                        IF x.err >= x.den THEN 0 ELSE -1)
      rho == ((x.err % x.den) * Pow2Mod(t, x.den)) % x.den
      odd == (((x.err % (2 * x.den)) * Pow2Mod(t, 2 * x.den)) % (2 * x.den))
                \div x.den = 1
  IN IF 2 * rho < x.den \/ (2 * rho = x.den /\ ~odd)
     THEN [x EXCEPT !.low = -rho, !.shift = t]
     ELSE [x EXCEPT !.low = x.den - rho, !.shift = t]

\* the double nearest to x
RoundDouble(x) ==
  IF x.n > 0 THEN RoundPositive(x)
  ELSE IF x.n < 0 THEN Negate(RoundPositive(Negate(x)))
  ELSE IF x.err > 0 THEN RoundResidue(x)
  ELSE IF x.err < 0 THEN Negate(RoundResidue(Negate(x)))
  ELSE x

\* the double that JSON.parse gives for a number of n10 tenths
ToDouble(n10) == RoundDouble(Double(n10, 0, 10))
\* a + b on doubles
AddDoubles(a, b) == RoundDouble(Double(a.n + b.n, a.err + b.err, 10))
\* x / count on doubles
DivideDouble(x, count) == RoundDouble(Double(x.n, x.err, x.den * count))
\* Math.round(x): floor(x + 0.5); err matters only when n / den ends in .5
MathRoundDouble(x) ==
  LET num == 2 * x.n + x.den
      den == 2 * x.den
      k == num \div den
  IN IF num % den = 0 /\ x.err < 0 THEN k - 1 ELSE k

\* vals.reduce((a, b) => a + b, 0): the doubles added from the left
RECURSIVE SumTenths(_)
SumTenths(vals) ==
  IF vals = <<>> THEN Double(0, 0, 10)
  ELSE AddDoubles(SumTenths(SubSeq(vals, 1, Len(vals) - 1)),
                  ToDouble(vals[Len(vals)].n10))

\* the try block of fetchPriceM2WithBrowsing after the call returned: the
\* price it returns (a throw of JSON.parse or of obj.idealista is caught)
BrowsingAverage(raw) ==
  LET vals == SelectSeq(<<raw.idealista, raw.fotocasa, raw.realadvisor>>,
                        LAMBDA v : v.t = "number")
  IN IF raw.kind # "object" THEN Null
     ELSE IF Len(vals) = 0 THEN Null
     ELSE Num(MathRoundDouble(DivideDouble(SumTenths(vals), Len(vals))))

(*************************** data store ************************************)
\* the column fresh_until that getCachedPrice selects: upsertCache does not
\* write it, the database derives it from the columns upsertCache writes
FreshUntil(fetched_at, ttl_days) == fetched_at + ttl_days

\* a row of price_m2_cache after upsertCache wrote it
CacheRow(price, source, fetched_at, ttl_days) ==
  [price_m2 |-> price, source |-> source, fetched_at |-> fetched_at,
   ttl_days |-> ttl_days, fresh_until |-> FreshUntil(fetched_at, ttl_days)]

\* getCachedPrice with the comparison of line 38 turned round
getCachedPriceReversed(rows, failed, t) ==
  IF failed \/ rows = <<>> THEN Null
  ELSE LET fresh == rows[1].fresh_until
       IN IF fresh = 0 \/ fresh > t THEN Null ELSE rows[1].price_m2

\* getCachedPrice without the test of fresh_until
getCachedPriceAnyAge(rows, failed, t) ==
  IF failed \/ rows = <<>> THEN Null ELSE rows[1].price_m2

\* getCachedPrice: rows is <<>> or <<row>>, failed is the error of the
\* select, t is Date.now(); a fresh_until of null counts as 0
getCachedPrice(rows, failed, t) ==
  IF failed \/ rows = <<>> THEN Null
  ELSE LET fresh == rows[1].fresh_until
       IN IF fresh = 0 \/ fresh <= t THEN Null ELSE rows[1].price_m2

\* upsertCache that drops ttlDays
upsertCacheNoTtl(table, cp, price, source, ttlDays, t) ==
  [table EXCEPT ![cp] = <<CacheRow(price, source, t, 0)>>]


\* upsertCache as an insert: the row is added to the ones the key has
upsertCacheInsert(table, cp, price, source, ttlDays, t) ==
  [table EXCEPT ![cp] = Append(@, CacheRow(price, source, t, ttlDays))]

\* the table price_m2_cache after the upsert of upsertCache took effect
upsertCache(table, cp, price, source, ttlDays, t) ==
  [table EXCEPT ![cp] = <<CacheRow(price, source, t, ttlDays)>>]

\* the valuation columns of a row of leads
LeadRow(price_m2, valuation_price, source, confidence, t) ==
  [price_m2 |-> price_m2, valuation_price |-> valuation_price,
   valuation_source |-> source, valuation_confidence |-> confidence,
   valuation_at |-> t]

\* the table leads after the update of updateLeadRow took effect: the rows
\* whose id is lead_id change, no row is added
updateLeadRow(table, lead_id, price_m2, valuation_price, source, confidence, t) ==
  [id \in DOMAIN table |->
     IF id = lead_id
     THEN LeadRow(price_m2, valuation_price, source, confidence, t)
     ELSE table[id]]

(************************ handler computations *****************************)
\* price * body.square_meters is a product of doubles.  An area of a10
\* tenths is the double nearest to a10 / 10, whose mantissa is
\* a10 * 2^s / 10 rounded, with s = 52 - Binade(a10); the product is
\* rounded to a double again.  The result differs from the exact product by
\* less than one unit in the last place, which Math.round sees only when
\* the exact product ends in .5.
\* the e with 2^e <= n10 / 10 < 2^(e+1), for n10 >= 1
RECURSIVE BinadeFrom(_, _)
BinadeFrom(n10, e) ==
  IF e >= 0
  THEN IF 10 * Pow2(e + 1) <= n10 THEN BinadeFrom(n10, e + 1) ELSE e
  ELSE IF n10 * Pow2(-e) >= 10 THEN e ELSE BinadeFrom(n10, e - 1)
Binade(n10) == IF n10 >= 10 THEN BinadeFrom(n10, 0) ELSE BinadeFrom(n10, -1)

\* 2^s mod 10 for s >= 1
Pow2Mod10(s) ==
  CASE s % 4 = 0 -> 6 [] s % 4 = 1 -> 2 [] s % 4 = 2 -> 4 [] s % 4 = 3 -> 8

\* ten times the distance, in units of the last place, from a10 / 10 to the
\* double nearest to it (a10 >= 1): negative when the double is below
TenthError(a10) ==
  LET rho == ((a10 % 10) * Pow2Mod10(MANTISSA_BITS - Binade(a10))) % 10
  IN IF rho < 5 THEN -rho ELSE 10 - rho

\* where the double |price| * |area| lies with respect to the exact product:
\* -1 below, 0 on it or rounded back to it, 1 above (when the exact product
\* ends in .5, which is a double)
ProductError(p, a10) ==
  LET d == Binade(Abs(p) * Abs(a10)) - Binade(Abs(a10))
      eps == TenthError(Abs(a10))
  IN IF 2 * Abs(p) * (-eps) > 10 * Pow2(d) THEN -1
     ELSE IF 2 * Abs(p) * eps > 10 * Pow2(d) THEN 1
     ELSE 0

\* Math.round(price * square_meters) for an integer price and an area of
\* a10 tenths, neither of them 0
RoundProduct(p, a10) ==
  LET exact10 == p * a10
      k == Abs(exact10) \div 10
  IN IF Abs(exact10) % 10 # 5 THEN MathRound(exact10, 10)
     ELSE IF exact10 > 0
     THEN (IF ProductError(p, a10) = -1 THEN k ELSE k + 1)
     ELSE (IF ProductError(p, a10) = 1 THEN -(k + 1) ELSE -k)

\* price && body.square_meters ? Math.round(price * body.square_meters) : null
\* (square_meters is counted in tenths)
ValuationPrice(price, square_meters) ==
  IF Truthy(price) /\ Truthy(square_meters)
  THEN Num(RoundProduct(Val(price), Val(square_meters)))
  ELSE Null


\* Confidence that knows the provider only
ConfidenceProviderOnly(price, source) ==
  IF Truthy(price)
  THEN IF source = "openai" THEN CONF_LLM ELSE CONF_OTHER
  ELSE CONF_NONE

\* price ? (source === "openai" || source === "cached" ? 85 : 60) : 0
Confidence(price, source) ==
  IF Truthy(price)
  THEN IF source = "openai" \/ source = "cached" THEN CONF_LLM ELSE CONF_OTHER
  ELSE CONF_NONE

(****************************** inputs *************************************)
Strategies == {"strict", "browsing", "freetext"}
Reqs == 1..NumReqs

A_CP ==
  <<"C", "a", "l", "l", "e", " ", "M", "a", "y", "o", "r", " ", "5", ",", " ",
    "2", "8", "0", "1", "3">>
A_NOCP == <<"C", "a", "l", "l", "e", " ", "M", "a", "y", "o", "r", " ", "5">>
CP_MAYOR == <<"2", "8", "0", "1", "3">>
PC_GIVEN == <<"0", "8", "0", "0">>

ExistingLeads == {"L1"}
LeadIds == {"", "L1", "L9"}
Addresses == {<<>>, A_CP, A_NOCP}
Areas == {Null, Num(805)}
PostalCodes == {<<>>, PC_GIVEN}
Bodies ==
  [lead_id : LeadIds, address : Addresses, square_meters : Areas,
   postal_code : PostalCodes]
NoBody ==
  [lead_id |-> "", address |-> <<>>, square_meters |-> Null,
   postal_code |-> <<>>]
CacheKeys == {CP_MAYOR, PC_GIVEN}

T_LOCALE == <<"3", ".", "1", "5", "0", ",", "0", "0">>
T_EUROS == <<"6", "5", "2", "6", " ", "€", "/", "m", "²">>
T_NA == <<"N", "A">>
T_ZERO == <<"0", "0", "0">>

\* what the completion can contain, per strategy
StrictContents ==
  {NotJson, JsonNA, JsonPrice(JStr), JsonPrice(JNum(30010)),
   JsonPrice(JNum(30005))}
\* (the three sources of the fourth have the mean 3101.5; their sum as
\* doubles is below 9304.5)
BrowsingContents ==
  {NotJson, JsonNull, JsonSources(JNull, JNull, JNull),
   JsonSources(JNum(43364), JNum(38557), JNum(11124)),
   JsonSources(JNum(0), JUndef, JStr)}
TextContents == {<<>>, T_NA, T_ZERO, T_LOCALE, T_EUROS}
Outcomes == {"ok", "error", "throw"}

TimePoints == {t \in {1, 90, 91, 180, 181} : t <= MaxTime}

(****************************** state **************************************)
NoResponse ==
  [status |-> 0, error |-> "", lead_id |-> "", price_m2 |-> Null,
   valuation_price |-> Null, source |-> "", confidence |-> 0,
   valuation_at |-> 0]
ErrorResponse(status, error) ==
  [NoResponse EXCEPT !.status = status, !.error = error]

\* a request slot: the position of the handler (pc), its locals, its
\* response, and a record of the external calls it made: how the select,
\* the upsert and the update ended (lookup, upsert, store), what the cache
\* table held for the key when the select ran (had, seen), whether the
\* provider was invoked and how many times, whether its call threw, what it
\* returned, and the number of calls of each kind
IdleReq ==
  [pc |-> "idle", body |-> NoBody, cp |-> <<>>, price |-> Null,
   source |-> "na", valuation_price |-> Null, confidence |-> 0,
   attempt |-> 0, at |-> 0, fetched_at |-> 0, response |-> NoResponse,
   lookup |-> "none", had |-> "none", seen |-> Null,
   invoked |-> FALSE, invocations |-> 0, threw |-> FALSE, provided |-> Null,
   upsert |-> "none", store |-> "none",
   calls |-> [cache |-> 0, provider |-> 0, upsert |-> 0, store |-> 0]]

\* what is remembered of the request handled before the current one: the
\* status, prices and source of its response, and how its upsert ended
Summary(q) ==
  [response |-> [status |-> q.response.status,
                 price_m2 |-> q.response.price_m2,
                 valuation_price |-> q.response.valuation_price,
                 source |-> q.response.source],
   upsert |-> q.upsert]

InFlight(q) == q.pc \notin {"idle", "done"}

\* what the table held for the key when the select ran
RowKind(rows, t) ==
  IF rows = <<>> THEN "absent"
  ELSE IF rows[1].fresh_until <= t THEN "stale"
  ELSE "fresh"

\* the argument and the result of a function looked at on its own, and, for
\* each key, the arguments of the upsert that took effect last
NoInput == <<>>
NoOutput == [done |-> FALSE, value |-> Null]
UpsertCall(cp, price, source, ttlDays, t, r) ==
  [cp |-> cp, price |-> price, source |-> source, ttl_days |-> ttlDays,
   at |-> t, by |-> r]

Init ==
  /\ strategy \in Strategies
  /\ apiKey \in BOOLEAN
  /\ now = 1
  /\ cache \in {[k \in CacheKeys |-> <<>>],
                [k \in CacheKeys |->
                   IF k = CP_MAYOR
                   THEN <<CacheRow(Num(2501), "openai", 0, TTL_DAYS)>>
                   ELSE <<>>]}
  /\ leads = [id \in ExistingLeads |-> LeadRow(Null, Null, "", 0, 0)]
  /\ req = [r \in Reqs |-> IdleReq]
  /\ prev = Summary(IdleReq)
  /\ nreq = 0
  /\ text = <<>>
  /\ parsed = [done |-> FALSE, price |-> Null]
  /\ input = NoInput
  /\ output = NoOutput
  /\ lastUpsert = [k \in CacheKeys |-> <<>>]
  /\ gatewayKey \in (IF strategy = "freetext" THEN BOOLEAN ELSE {TRUE})

(**************************** handler **************************************)
\* The handlers of the three files differ in the provider they call; the
\* handler of index.ts 301-357 also reads lead_id and address from the
\* query, so body stands for the values it ends up with.  A request is one
\* that reached the handler.
\* res.status(400).json({error}) and res.status(500).json({error})
Reject(q, error) ==
  [q EXCEPT !.pc = "done", !.response = ErrorResponse(400, error)]

\* InternalError that sends nothing
InternalErrorUnanswered(q) ==
  [q EXCEPT !.pc = "crashed"]

InternalError(q) ==
  [q EXCEPT !.pc = "done", !.response = ErrorResponse(500, "internal_error")]

\* from the price to the call of updateLeadRow: valuation_price, confidence
\* and the row handed to the lead store (valuation_at is nowIso() of the call)
Settle(q, price, source) ==
  [q EXCEPT !.price = price,
            !.source = source,
            !.valuation_price = ValuationPrice(price, q.body.square_meters),
            !.confidence = Confidence(price, source),
            !.pc = "updateLeadRow",
            !.at = now,
            !.calls.store = @ + 1]

\* AfterProvider that forgets the write-back
AfterProviderNoWriteBack(q, price) ==
  Settle([q EXCEPT !.provided = price], price,
         IF Truthy(price) THEN "openai" ELSE q.source)


\* AfterProvider that writes back whatever the provider returned
AfterProviderAlwaysWrites(q, price) ==
  [q EXCEPT !.price = price, !.source = "openai", !.provided = price,
            !.pc = "upsertCache", !.at = now, !.fetched_at = now,
            !.calls.upsert = @ + 1]

\* if (price) { source = "openai"; await upsertCache(cp, price, source, 90) }
AfterProvider(q, price) ==
  IF Truthy(price)
  THEN [q EXCEPT !.price = price, !.source = "openai", !.provided = price,
                 !.pc = "upsertCache", !.at = now, !.fetched_at = now,
            !.calls.upsert = @ + 1]
  ELSE Settle([q EXCEPT !.provided = price], price, q.source)

\* let source = price ? "cached" : "na"; if (!price) price = await fetch...:
\* without OPENAI_API_KEY the provider returns null before any call
AfterCache(q, price) ==
  IF Truthy(price) THEN Settle(q, price, "cached")
  ELSE IF ~apiKey
       THEN AfterProvider([q EXCEPT !.source = "na", !.invoked = TRUE,
                                    !.invocations = @ + 1], Null)
       ELSE [q EXCEPT !.price = price, !.source = "na", !.invoked = TRUE,
                      !.invocations = @ + 1,
                      !.pc = "provider", !.attempt = 1,
                      !.calls.provider = @ + 1]

\* the slot a new request takes: the first one that holds no request in flight
FreeSlots == {r \in Reqs : ~InFlight(req[r])}
FirstFree == CHOOSE r \in FreeSlots : \A q \in FreeSlots : r <= q

\* Arrive without the test of the postal code
ArriveUnchecked(r, body) ==
  LET q == [IdleReq EXCEPT !.body = body]
  IN /\ nreq' = nreq + 1
     /\ prev' = Summary(req[r])
     /\ req' = [req EXCEPT ![r] =
          IF body.lead_id = "" \/ body.address = <<>>
          THEN Reject(q, "lead_id y address son obligatorios")
          ELSE [q EXCEPT !.cp = ExtractCP(body), !.pc = "getCachedPrice",
                         !.calls.cache = @ + 1]]
     /\ UNCHANGED <<strategy, apiKey, now, cache, leads, text, parsed,
                  input, output, lastUpsert, gatewayKey>>


\* Arrive that asks for the address only when no postal code is given
ArriveAddressOptional(r, body) ==
  LET q == [IdleReq EXCEPT !.body = body]
      cp == ExtractCP(body)
  IN /\ nreq' = nreq + 1
     /\ prev' = Summary(req[r])
     /\ req' = [req EXCEPT ![r] =
          IF body.lead_id = "" \/ (body.address = <<>> /\ body.postal_code = <<>>)
          THEN Reject(q, "lead_id y address son obligatorios")
          ELSE IF cp = <<>>
          THEN Reject(q, "no se pudo detectar el CP")
          ELSE [q EXCEPT !.cp = cp, !.pc = "getCachedPrice",
                         !.calls.cache = @ + 1]]
     /\ UNCHANGED <<strategy, apiKey, now, cache, leads, text, parsed,
                  input, output, lastUpsert, gatewayKey>>

\* the handler from the arrival of the request to its first await
Arrive(r, body) ==
  LET q == [IdleReq EXCEPT !.body = body]
      cp == ExtractCP(body)
  IN /\ nreq' = nreq + 1
     /\ prev' = Summary(req[r])
     /\ req' = [req EXCEPT ![r] =
          IF body.lead_id = "" \/ body.address = <<>>
          THEN Reject(q, "lead_id y address son obligatorios")
          ELSE IF cp = <<>>
          THEN Reject(q, "no se pudo detectar el CP")
          ELSE [q EXCEPT !.cp = cp, !.pc = "getCachedPrice",
                         !.calls.cache = @ + 1]]
     /\ UNCHANGED <<strategy, apiKey, now, cache, leads, text, parsed,
                  input, output, lastUpsert, gatewayKey>>

\* the middleware of part_000 answers 401 when API_GATEWAY_KEY is not set or
\* the header x-api-key differs from it, and the handler is not entered
Unauthorized(r) ==
  /\ nreq' = nreq + 1
  /\ prev' = Summary(req[r])
  /\ req' = [req EXCEPT ![r] =
       [IdleReq EXCEPT !.pc = "done",
                       !.response = ErrorResponse(401, "unauthorized")]]
  /\ UNCHANGED <<strategy, apiKey, now, cache, leads, text, parsed,
                 input, output, lastUpsert, gatewayKey>>

\* a request goes through the middleware, which in index.ts lets every
\* request through; keyOk says that x-api-key is the value of
\* API_GATEWAY_KEY
Enter(r, body, keyOk) ==
  IF strategy = "freetext" /\ ~(gatewayKey /\ keyOk)
  THEN Unauthorized(r)
  ELSE Arrive(r, body)

\* requests are handled one after the other
Receive ==
  /\ nreq < MaxRequests
  /\ \A r \in Reqs : ~InFlight(req[r])
  /\ \E body \in Bodies, keyOk \in BOOLEAN : Enter(FirstFree, body, keyOk)

\* the select of getCachedPrice returns (or throws) and the handler runs on
\* to its next await
CacheReturns(r) ==
  /\ req[r].pc = "getCachedPrice"
  /\ \E outcome \in Outcomes :
       LET q == req[r]
           failed == outcome = "error"
           price == getCachedPrice(cache[q.cp], failed, now)
           looked == [q EXCEPT
                        !.lookup = outcome,
                        !.had = RowKind(cache[q.cp], now),
                        !.seen = IF cache[q.cp] = <<>> THEN Null
                                 ELSE cache[q.cp][1].price_m2]
       IN req' = [req EXCEPT ![r] =
            IF outcome = "throw" THEN InternalError(looked)
            ELSE AfterCache(looked, price)]
  /\ UNCHANGED <<strategy, apiKey, now, cache, leads, prev, nreq, text, parsed,
               input, output, lastUpsert, gatewayKey>>


\* StrictReturns with a third prompt
StrictReturnsThreePrompts(r) ==
  /\ req[r].pc = "provider"
  /\ strategy = "strict"
  /\ \E thrown \in BOOLEAN, raw \in StrictContents :
       LET q == req[r]
           got == StrictAccept(raw)
       IN req' = [req EXCEPT ![r] =
            IF thrown THEN InternalError([q EXCEPT !.threw = TRUE])
            ELSE IF got # Null THEN AfterProvider(q, got)
            ELSE IF q.attempt <= 2
            THEN [q EXCEPT !.attempt = @ + 1, !.calls.provider = @ + 1]
            ELSE AfterProvider(q, Null)]
  /\ UNCHANGED <<strategy, apiKey, now, cache, leads, prev, nreq, text, parsed,
               input, output, lastUpsert, gatewayKey>>

\* fetchPriceM2WithOpenAI of index.ts: the create call is outside the try,
\* a content that is rejected leads to the second prompt, then to null
StrictReturns(r) ==
  /\ req[r].pc = "provider"
  /\ strategy = "strict"
  /\ \E thrown \in BOOLEAN, raw \in StrictContents :
       LET q == req[r]
           got == StrictAccept(raw)
       IN req' = [req EXCEPT ![r] =
            IF thrown THEN InternalError([q EXCEPT !.threw = TRUE])
            ELSE IF got # Null THEN AfterProvider(q, got)
            ELSE IF q.attempt = 1
            THEN [q EXCEPT !.attempt = 2, !.calls.provider = @ + 1]
            ELSE AfterProvider(q, Null)]
  /\ UNCHANGED <<strategy, apiKey, now, cache, leads, prev, nreq, text, parsed,
               input, output, lastUpsert, gatewayKey>>

\* fetchPriceM2WithBrowsing: the call and the parsing are inside the try
BrowsingReturns(r) ==
  /\ req[r].pc = "provider"
  /\ strategy = "browsing"
  /\ \E thrown \in BOOLEAN, raw \in BrowsingContents :
       LET q == req[r]
       IN req' = [req EXCEPT ![r] =
            IF thrown THEN AfterProvider([q EXCEPT !.threw = TRUE], Null)
            ELSE AfterProvider(q, BrowsingAverage(raw))]
  /\ UNCHANGED <<strategy, apiKey, now, cache, leads, prev, nreq, text, parsed,
               input, output, lastUpsert, gatewayKey>>

\* fetchPriceM2WithOpenAI of part_000: no try at all
TextReturns(r) ==
  /\ req[r].pc = "provider"
  /\ strategy = "freetext"
  /\ \E thrown \in BOOLEAN, content \in TextContents :
       LET q == req[r]
       IN req' = [req EXCEPT ![r] =
            IF thrown THEN InternalError([q EXCEPT !.threw = TRUE])
            ELSE AfterProvider(q, ParsePriceText(content))]
  /\ UNCHANGED <<strategy, apiKey, now, cache, leads, prev, nreq, text, parsed,
               input, output, lastUpsert, gatewayKey>>

\* the upsert of upsertCache returns: its error is not looked at, a throw
\* reaches the catch of the handler
UpsertReturns(r) ==
  /\ req[r].pc = "upsertCache"
  /\ \E outcome \in Outcomes :
       LET q == [req[r] EXCEPT !.upsert = outcome]
       IN /\ cache' = IF outcome = "ok"
                      THEN upsertCache(cache, q.cp, q.price, q.source, TTL_DAYS, q.at)
                      ELSE cache
          /\ lastUpsert' = IF outcome = "ok"
                           THEN [lastUpsert EXCEPT ![q.cp] =
                                   <<UpsertCall(q.cp, q.price, q.source,
                                                TTL_DAYS, q.at, r)>>]
                           ELSE lastUpsert
          /\ req' = [req EXCEPT ![r] =
               IF outcome = "throw" THEN InternalError(q)
               ELSE Settle(q, q.price, q.source)]
  /\ UNCHANGED <<strategy, apiKey, now, leads, prev, nreq, text, parsed,
               input, output, gatewayKey>>

\* the update of updateLeadRow returns: its error is not looked at, a throw
\* reaches the catch of the handler; otherwise res.json(...)
StoreReturns(r) ==
  /\ req[r].pc = "updateLeadRow"
  /\ \E outcome \in Outcomes :
       LET q == [req[r] EXCEPT !.store = outcome]
       IN /\ leads' = IF outcome = "ok"
                      THEN updateLeadRow(leads, q.body.lead_id, q.price,
                                         q.valuation_price, q.source,
                                         q.confidence, q.at)
                      ELSE leads
          /\ req' = [req EXCEPT ![r] =
               IF outcome = "throw" THEN InternalError(q)
               ELSE [q EXCEPT !.pc = "done",
                              !.response =
                                [status |-> 200, error |-> "",
                                 lead_id |-> q.body.lead_id,
                                 price_m2 |-> q.price,
                                 valuation_price |-> q.valuation_price,
                                 source |-> q.source,
                                 confidence |-> q.confidence,
                                 valuation_at |-> now]]]
  /\ UNCHANGED <<strategy, apiKey, now, cache, prev, nreq, text, parsed,
               input, output, lastUpsert, gatewayKey>>

\* time passes, also while calls are pending: the clock counts days, and
\* the code reads it after the select returned (Date.now()), when it calls
\* upsertCache and updateLeadRow (nowIso()) and when it answers
Tick ==
  /\ \E t \in TimePoints : t > now /\ now' = t
  /\ UNCHANGED <<strategy, apiKey, cache, leads, req, prev, nreq, text, parsed,
               input, output, lastUpsert, gatewayKey>>

Next ==
  \/ Receive
  \/ \E r \in Reqs : CacheReturns(r)
  \/ \E r \in Reqs : StrictReturns(r)
  \/ \E r \in Reqs : BrowsingReturns(r)
  \/ \E r \in Reqs : TextReturns(r)
  \/ \E r \in Reqs : UpsertReturns(r)
  \/ \E r \in Reqs : StoreReturns(r)
  \/ Tick

Spec == Init /\ [][Next]_vars

(********************* the same request, twice *****************************)
\* the first of two calls: any request, at any time
ReceiveFirst ==
  /\ nreq = 0
  /\ \E body \in Bodies, keyOk \in BOOLEAN : Enter(FirstFree, body, keyOk)

\* the second call: the same input, x-api-key included, as soon as the
\* first was answered
ReceiveAgain ==
  /\ nreq = 1
  /\ req[FirstFree].pc = "done"
  /\ Enter(FirstFree, req[FirstFree].body,
           req[FirstFree].response.status # 401)

\* the two calls follow each other at once: time passes before them only
TickBefore == nreq = 0 /\ Tick

NextTwice ==
  \/ ReceiveFirst
  \/ ReceiveAgain
  \/ \E r \in Reqs : CacheReturns(r)
  \/ \E r \in Reqs : StrictReturns(r)
  \/ \E r \in Reqs : BrowsingReturns(r)
  \/ \E r \in Reqs : TextReturns(r)
  \/ \E r \in Reqs : UpsertReturns(r)
  \/ \E r \in Reqs : StoreReturns(r)
  \/ TickBefore

SpecTwice == Init /\ [][NextTwice]_vars

(************************ requests that overlap *****************************)
\* the handler is async: a request is received while the calls of another
\* are pending, and the calls return in any order.  The requests are the
\* ones of part_000 for one address, with OPENAI_API_KEY set.
ConcurrentBodies ==
  {b \in Bodies : /\ b.lead_id = "L1"
                  /\ b.address = A_CP
                  /\ b.square_meters = Null
                  /\ b.postal_code = <<>>}

InitConcurrent ==
  /\ Init
  /\ strategy = "freetext"
  /\ apiKey

ReceiveConcurrent ==
  /\ nreq < NumReqs
  /\ FreeSlots # {}
  /\ \E body \in ConcurrentBodies, keyOk \in BOOLEAN :
       Enter(FirstFree, body, keyOk)

NextConcurrent ==
  \/ ReceiveConcurrent
  \/ \E r \in Reqs : CacheReturns(r)
  \/ \E r \in Reqs : TextReturns(r)
  \/ \E r \in Reqs : UpsertReturns(r)
  \/ \E r \in Reqs : StoreReturns(r)

SpecConcurrent == InitConcurrent /\ [][NextConcurrent]_vars

(********************* calls that return in the end ************************)
\* every external call that is pending returns or throws in the end: the
\* return of a pending call stays enabled until it is taken
CallsReturn ==
  \A r \in Reqs :
    /\ WF_vars(CacheReturns(r))
    /\ WF_vars(StrictReturns(r))
    /\ WF_vars(BrowsingReturns(r))
    /\ WF_vars(TextReturns(r))
    /\ WF_vars(UpsertReturns(r))
    /\ WF_vars(StoreReturns(r))

\* the requests that carry neither square_meters nor postal_code
PlainBodies ==
  {b \in Bodies : /\ b.lead_id \in {"", "L1"}
                  /\ b.square_meters = Null
                  /\ b.postal_code = <<>>}

ReceivePlain ==
  /\ nreq < MaxRequests
  /\ \A r \in Reqs : ~InFlight(req[r])
  /\ \E body \in PlainBodies, keyOk \in BOOLEAN :
       Enter(FirstFree, body, keyOk)

NextCallsReturn ==
  \/ ReceivePlain
  \/ \E r \in Reqs : CacheReturns(r)
  \/ \E r \in Reqs : StrictReturns(r)
  \/ \E r \in Reqs : BrowsingReturns(r)
  \/ \E r \in Reqs : TextReturns(r)
  \/ \E r \in Reqs : UpsertReturns(r)
  \/ \E r \in Reqs : StoreReturns(r)
  \/ Tick

SpecCallsReturn == Init /\ [][NextCallsReturn]_vars /\ CallsReturn

(******************* the free-text parser on its own ***********************)
TextAlphabet == {"1", "5", "0", ".", ",", " "}
RECURSIVE TextsOfLen(_)
TextsOfLen(n) ==
  IF n = 0 THEN {<<>>}
  ELSE {Append(t, c) : t \in TextsOfLen(n - 1), c \in TextAlphabet}
Texts ==
  UNION {TextsOfLen(n) : n \in 0..MaxTextLen}
    \cup {T_LOCALE, T_EUROS, T_NA, T_ZERO}

InitParse ==
  /\ strategy = "freetext"
  /\ apiKey = TRUE
  /\ now = 1
  /\ cache = [k \in CacheKeys |-> <<>>]
  /\ leads = [id \in ExistingLeads |-> LeadRow(Null, Null, "", 0, 0)]
  /\ req = [r \in Reqs |-> IdleReq]
  /\ prev = Summary(IdleReq)
  /\ nreq = 0
  /\ text \in Texts
  /\ parsed = [done |-> FALSE, price |-> Null]
  /\ input = NoInput
  /\ output = NoOutput
  /\ lastUpsert = [k \in CacheKeys |-> <<>>]
  /\ gatewayKey = TRUE

\* the completion's content goes through the parser
Parse ==
  /\ ~parsed.done
  /\ parsed' = [done |-> TRUE, price |-> ParsePriceText(text)]
  /\ UNCHANGED <<strategy, apiKey, now, cache, leads, req, prev, nreq, text,
               input, output, lastUpsert, gatewayKey>>

NextParse == Parse

SpecParse == InitParse /\ [][NextParse]_vars

(***************** the averaging of the sources on its own *****************)
\* what a field of the completion's JSON may hold; 4.3, 0.1, 0.1 and
\* 3550.2, 5867.4, 4374.9 have a mean that ends in .5 and a sum of doubles
\* that is below the exact sum; 0.1 + 0.2 - 0.3 leaves 2^-54
SourceValues ==
  {JUndef, JNull, JStr, JNum(0), JNum(-10), JNum(15), JNum(30000),
   JNum(32000), JNum(32010), JNum(43), JNum(1), JNum(2), JNum(-3),
   JNum(35502), JNum(58674), JNum(43749)}
AverageInputs ==
  {NotJson, JsonNull}
    \cup {JsonSources(a, b, c) : a \in SourceValues, b \in SourceValues,
                                 c \in SourceValues}

\* the part of a state that a function looked at on its own leaves alone
NoRequests ==
  /\ strategy = "browsing"
  /\ apiKey = TRUE
  /\ now = 1
  /\ cache = [k \in CacheKeys |-> <<>>]
  /\ leads = [id \in ExistingLeads |-> LeadRow(Null, Null, "", 0, 0)]
  /\ req = [r \in Reqs |-> IdleReq]
  /\ prev = Summary(IdleReq)
  /\ nreq = 0
  /\ text = <<>>
  /\ parsed = [done |-> FALSE, price |-> Null]
  /\ lastUpsert = [k \in CacheKeys |-> <<>>]
  /\ gatewayKey = TRUE

InitAverage ==
  /\ NoRequests
  /\ input \in AverageInputs
  /\ output = NoOutput

\* the completion's content goes through the averaging
Average ==
  /\ ~output.done
  /\ output' = [done |-> TRUE, value |-> BrowsingAverage(input)]
  /\ UNCHANGED <<strategy, apiKey, now, cache, leads, req, prev, nreq, text,
                 parsed, input, lastUpsert, gatewayKey>>

NextAverage == Average

SpecAverage == InitAverage /\ [][NextAverage]_vars

(******************* the postal-code extractor on its own ******************)
\* addresses are up to MaxTokens pieces put one after the other
AddressTokens ==
  {<<"2", "8", "0", "1", "3">>, <<"0", "8", "0", "0", "1">>, <<"1">>,
   <<"a">>, <<"_">>, <<" ">>, <<",">>}
RECURSIVE AddressesOf(_)
AddressesOf(n) ==
  IF n = 0 THEN {<<>>}
  ELSE {a \o t : a \in AddressesOf(n - 1), t \in AddressTokens}
ExtractAddresses == UNION {AddressesOf(n) : n \in 0..MaxTokens}
ExtractInputs ==
  {[postal_code |-> p, address |-> a] : p \in PostalCodes, a \in ExtractAddresses}

InitExtract ==
  /\ NoRequests
  /\ input \in ExtractInputs
  /\ output = NoOutput

\* the handler's computation of cp
Extract ==
  /\ ~output.done
  /\ output' = [done |-> TRUE, value |-> ExtractCP(input)]
  /\ UNCHANGED <<strategy, apiKey, now, cache, leads, req, prev, nreq, text,
                 parsed, input, lastUpsert, gatewayKey>>

NextExtract == Extract

SpecExtract == InitExtract /\ [][NextExtract]_vars

(****************************** claims *************************************)
Answered(q) == q.pc = "done"
\* the request got past the middleware and the handler ran
Entered(q) == q.pc # "idle" /\ q.response.status # 401
Success(q) == q.response.status = 200
NoCalls == [cache |-> 0, provider |-> 0, upsert |-> 0, store |-> 0]

\* C1, as stated: a request whose postal code has a fresh cache entry when
\* the lookup runs never invokes the provider, and its answer is the cached
\* price with source "cached".
C1_FreshEntryIsServed ==
  \A r \in Reqs :
    req[r].had = "fresh" =>
      /\ ~req[r].invoked
      /\ Success(req[r]) =>
           /\ req[r].response.source = "cached"
           /\ req[r].response.price_m2 = req[r].seen

\* C1, amended: when the select of the lookup returns without error and the
\* row it finds is fresh, the provider is never invoked (no backend call is
\* made), the handler's price is the cached one with source "cached", and
\* so is every answer with status 200.
C1_FreshLookupIsServed ==
  \A r \in Reqs :
    (req[r].lookup = "ok" /\ req[r].had = "fresh") =>
      /\ ~req[r].invoked
      /\ req[r].calls.provider = 0
      /\ req[r].price = req[r].seen
      /\ req[r].source = "cached"
      /\ Success(req[r]) =>
           /\ req[r].response.source = "cached"
           /\ req[r].response.price_m2 = req[r].seen

C1_Witness ==
  \E r \in Reqs :
    /\ Success(req[r])
    /\ req[r].lookup = "ok"
    /\ req[r].had = "fresh"
    /\ req[r].response.source = "cached"
    /\ req[r].response.price_m2 = Num(2501)

\* the requests that validation rejects
Invalid(body) ==
  \/ body.lead_id = ""
  \/ body.address = <<>>
  \/ body.postal_code = <<>> /\ CP_REGEX(body.address) = <<>>

\* C2: a request that validation rejects (no lead_id, no address, or no
\* postal code given and none in the address) is answered 400, and it made
\* no cache read, no provider call, no cache write and no lead-store write.
C2_RejectedWithoutCalls ==
  \A r \in Reqs :
    (Entered(req[r]) /\ Invalid(req[r].body)) =>
      /\ Answered(req[r])
      /\ req[r].response.status = 400
      /\ req[r].calls = NoCalls
      /\ req[r].lookup = "none"
      /\ ~req[r].invoked
      /\ req[r].upsert = "none"
      /\ req[r].store = "none"

C2_Witness ==
  \E r \in Reqs :
    /\ req[r].body.lead_id = "L1"
    /\ req[r].body.address = A_NOCP
    /\ req[r].body.postal_code = <<>>
    /\ req[r].response.status = 400
    /\ req[r].response.error = "no se pudo detectar el CP"

\* C3: in every strategy a provider call that throws is absorbed: the
\* handler goes on to the lead store with source "na" and confidence 0, and
\* a 200 answer says so.
C3_ProviderThrowIsAbsorbed ==
  \A r \in Reqs :
    req[r].threw =>
      /\ req[r].calls.store = 1
      /\ req[r].source = "na"
      /\ req[r].confidence = 0
      /\ Success(req[r]) =>
           /\ req[r].response.source = "na"
           /\ req[r].response.confidence = 0

\* the second of two calls and what is remembered of the first
SecondCall(q) ==
  /\ nreq = 2
  /\ prev.response.status = 200
  /\ Truthy(prev.response.price_m2)

\* C4, as stated: of two calls in immediate succession with the same input,
\* the first of which got a usable price, the second does not invoke the
\* provider and answers the same price_m2 and valuation_price with source
\* "cached".
C4_Idempotent ==
  \A r \in Reqs :
    SecondCall(req[r]) =>
      /\ ~req[r].invoked
      /\ Success(req[r]) =>
           /\ req[r].response.price_m2 = prev.response.price_m2
           /\ req[r].response.valuation_price = prev.response.valuation_price
           /\ req[r].response.source = "cached"

\* C4, amended: the same, provided the first call's cache write-back (when
\* it made one) succeeded and the select of the second call's lookup
\* returned without error.
C4_IdempotentWhenCacheWorks ==
  \A r \in Reqs :
    (/\ SecondCall(req[r])
     /\ prev.upsert \in {"none", "ok"}
     /\ req[r].lookup = "ok") =>
      /\ ~req[r].invoked
      /\ Success(req[r]) =>
           /\ req[r].response.price_m2 = prev.response.price_m2
           /\ req[r].response.valuation_price = prev.response.valuation_price
           /\ req[r].response.source = "cached"

C4_Witness ==
  \E r \in Reqs :
    /\ SecondCall(req[r])
    /\ prev.response.source = "openai"
    /\ prev.upsert = "ok"
    /\ Success(req[r])
    /\ req[r].response.source = "cached"
    /\ req[r].response.price_m2 = prev.response.price_m2
    /\ req[r].response.valuation_price # Null

\* the cache holds the provider's value for the request's postal code with
\* ttl_days = 90, and the lookup finds it on each of the 90 days from the
\* write on, and no longer on the day after
CacheHolds(q) ==
  /\ cache[q.cp] # <<>>
  /\ cache[q.cp][1].price_m2 = q.provided
  /\ cache[q.cp][1].ttl_days = TTL_DAYS
  /\ cache[q.cp][1].fetched_at = q.fetched_at
  /\ \A t \in q.fetched_at..(q.fetched_at + TTL_DAYS - 1) :
       getCachedPrice(cache[q.cp], FALSE, t) = q.provided
  /\ getCachedPrice(cache[q.cp], FALSE, q.fetched_at + TTL_DAYS) = Null

\* C5, as stated: when the lookup misses and the provider returns a usable
\* value p, the answer has source "openai", price_m2 = p and confidence 85,
\* and the cache then holds p for the postal code, fresh for 90 days.
C5_ProviderValueIsCached ==
  \A r \in Reqs :
    (Success(req[r]) /\ req[r].invoked /\ Truthy(req[r].provided)) =>
      /\ req[r].response.source = "openai"
      /\ req[r].response.price_m2 = req[r].provided
      /\ req[r].response.confidence = CONF_LLM
      /\ CacheHolds(req[r])

\* C5, amended: the answer is as stated; the cache holds p, fresh for 90
\* days, when the upsert succeeded (its failure is not reported).
C5_ProviderValueIsCachedWhenUpsertWorks ==
  \A r \in Reqs :
    (Success(req[r]) /\ req[r].invoked /\ Truthy(req[r].provided)) =>
      /\ req[r].response.source = "openai"
      /\ req[r].response.price_m2 = req[r].provided
      /\ req[r].response.confidence = CONF_LLM
      /\ req[r].upsert = "ok" => CacheHolds(req[r])

C5_Witness ==
  \E r \in Reqs :
    /\ Success(req[r])
    /\ req[r].had \in {"absent", "stale"}
    /\ Truthy(req[r].provided)
    /\ req[r].upsert = "ok"
    /\ req[r].response.source = "openai"
    /\ cache[req[r].cp] = <<CacheRow(req[r].provided, "openai", now, TTL_DAYS)>>

\* C6: when the postal code's row is absent or expired, a 200 answer never
\* has source "cached" (the provider was invoked); and when the provider
\* then returned null, the answer is price_m2 = null, valuation_price =
\* null, source "na", confidence 0, after one cache read, at most two
\* backend calls and no cache write.
C6_MissAndUnavailable ==
  \A r \in Reqs :
    (Success(req[r]) /\ req[r].had \in {"absent", "stale"}) =>
      /\ req[r].response.source # "cached"
      /\ req[r].invoked
      /\ req[r].provided = Null =>
           /\ req[r].response.price_m2 = Null
           /\ req[r].response.valuation_price = Null
           /\ req[r].response.source = "na"
           /\ req[r].response.confidence = 0
           /\ req[r].calls.cache = 1
           /\ req[r].calls.provider <= 2
           /\ req[r].calls.upsert = 0

C6_Witness ==
  \E r \in Reqs :
    /\ Success(req[r])
    /\ req[r].had = "stale"
    /\ req[r].seen = Num(2501)
    /\ req[r].calls.provider >= 1
    /\ req[r].provided = Null
    /\ req[r].response.source = "na"
    /\ req[r].response.price_m2 = Null

\* C7: a lead-store write that fails is answered 500: every 200 answer
\* comes after a lead-store write that succeeded.
C7_StoreFailureIs500 ==
  \A r \in Reqs :
    /\ (Answered(req[r]) /\ req[r].store \in {"error", "throw"}) =>
         req[r].response.status = 500
    /\ Success(req[r]) => req[r].store = "ok"

\* C8: a cache upsert that fails, in whatever way, does not abort the
\* request: the handler goes on to the lead store with source "openai", and
\* unless the lead store throws the answer is 200.
C8_UpsertFailureIsSwallowed ==
  \A r \in Reqs :
    req[r].upsert \in {"error", "throw"} =>
      /\ req[r].calls.store = 1
      /\ req[r].source = "openai"
      /\ (Answered(req[r]) /\ req[r].store # "throw") =>
           /\ Success(req[r])
           /\ req[r].response.source = "openai"

\* C9: the free-text parser reads "." as thousands separator and "," as
\* decimal separator: "3.150,00" gives 3150, "6526 €/m²" gives 6526, and
\* "NA" gives null.
C9_LocaleNumbersParse ==
  parsed.done =>
    /\ text = T_LOCALE => parsed.price = Num(3150)
    /\ text = T_EUROS => parsed.price = Num(6526)
    /\ text = T_NA => parsed.price = Null

\* C10: in every 200 answer valuation_price is present exactly when price_m2
\* and the input area are both present, and it then equals
\* round(price_m2 * area).
C10_TotalIffPriceAndArea ==
  \A r \in Reqs :
    Success(req[r]) =>
      LET resp == req[r].response
          area == req[r].body.square_meters
      IN /\ resp.valuation_price # Null <=>
              (resp.price_m2 # Null /\ area # Null)
         /\ resp.valuation_price # Null =>
              resp.valuation_price =
                Num(MathRound(Val(resp.price_m2) * Val(area), 10))

\* the valuation columns of leads rows that a request wrote
Persisted == {leads[id] : id \in {i \in DOMAIN leads : leads[i].valuation_source # ""}}

\* C11: in every 200 answer and in every row a request wrote to leads, the
\* confidence is 0 exactly when the source is "na", it is 85 when the source
\* is "cached" or "openai", and it takes no other value.
C11_ConfidenceFollowsSource ==
  /\ \A r \in Reqs :
       Success(req[r]) =>
         LET resp == req[r].response
         IN /\ resp.confidence \in {CONF_NONE, CONF_LLM}
            /\ resp.confidence = CONF_NONE <=> resp.source = "na"
            /\ resp.source \in {"cached", "openai"} => resp.confidence = CONF_LLM
  /\ \A row \in Persisted :
       /\ row.valuation_confidence \in {CONF_NONE, CONF_LLM}
       /\ row.valuation_confidence = CONF_NONE <=> row.valuation_source = "na"
       /\ row.valuation_source \in {"cached", "openai"} =>
            row.valuation_confidence = CONF_LLM

C11_Witness ==
  \E r \in Reqs :
    /\ Success(req[r])
    /\ req[r].response.source = "cached"
    /\ req[r].response.confidence = CONF_LLM
    /\ leads["L1"].valuation_source = "cached"
    /\ leads["L1"].valuation_confidence = CONF_LLM

\* C12, as stated: every request whose postal code had no entry, or an
\* entry that was no longer fresh, when the lookup ran has invoked the
\* provider function exactly once, with at most two calls to the backend,
\* by the time it is answered.
C12_ProviderInvokedOnEveryMiss ==
  \A r \in Reqs :
    LET q == req[r]
    IN (q.had \in {"absent", "stale"} /\ Answered(q)) =>
         /\ q.invocations = 1
         /\ q.calls.provider <= 2

\* C12, amended: a request whose select returned (with rows or with an
\* error), whose postal code had no entry or an entry that was no longer
\* fresh, invoked the provider function exactly once before it was
\* answered, and that invocation made at most two calls to the backend (one,
\* and a second prompt in the strict variant); the provider was invoked by
\* the time any cache write or lead write of the request was started.  A
\* request whose select threw is answered 500 and never invokes the
\* provider.
C12_OneInvocationAtMostTwoCalls ==
  \A r \in Reqs :
    LET q == req[r]
    IN /\ q.invocations <= 1
       /\ q.calls.provider <= 2
       /\ (q.had \in {"absent", "stale"} /\ q.lookup # "throw"
             /\ q.pc \in {"provider", "upsertCache", "updateLeadRow", "done"}) =>
            /\ q.invocations = 1
            /\ q.invoked
            /\ strategy # "strict" => q.calls.provider <= 1
            /\ apiKey => q.calls.provider >= 1
       /\ (q.lookup = "throw" /\ Answered(q)) =>
            /\ q.response.status = 500
            /\ q.invocations = 0
            /\ q.calls.provider = 0

C12_Witness ==
  \E r \in Reqs :
    /\ Success(req[r])
    /\ req[r].had = "stale"
    /\ req[r].invocations = 1
    /\ req[r].calls.provider = 2

\* C13, as stated: a request with a lead_id and a non-empty postal_code but
\* no address passes validation and goes on to the cache lookup.
C13_PostalCodeReplacesAddress ==
  \A r \in Reqs :
    LET b == req[r].body
    IN (Entered(req[r]) /\ b.lead_id # "" /\ b.postal_code # <<>>
          /\ b.address = <<>>) =>
         /\ req[r].response.status # 400
         /\ req[r].calls.cache = 1

\* C13, amended: the address is required whatever postal_code holds: a
\* request with a lead_id and a non-empty postal_code but no address is
\* answered 400 "lead_id y address son obligatorios" before any call; a
\* given postal_code only stands in for the code looked up in the address,
\* so with an address that holds no code the request goes on to the cache
\* lookup under the given postal_code.
C13_AddressIsRequired ==
  \A r \in Reqs :
    LET b == req[r].body
    IN /\ (Entered(req[r]) /\ b.lead_id # "" /\ b.postal_code # <<>>
             /\ b.address = <<>>) =>
            /\ Answered(req[r])
            /\ req[r].response.status = 400
            /\ req[r].response.error = "lead_id y address son obligatorios"
            /\ req[r].calls = NoCalls
       /\ (Entered(req[r]) /\ b.lead_id # "" /\ b.postal_code # <<>>
             /\ b.address = A_NOCP) =>
            /\ req[r].response.status # 400
            /\ req[r].cp = b.postal_code
            /\ req[r].calls.cache = 1

C13_Witness ==
  \E r \in Reqs :
    /\ req[r].body.lead_id = "L1"
    /\ req[r].body.postal_code = PC_GIVEN
    /\ req[r].body.address = <<>>
    /\ req[r].response.status = 400

\* the fields of the completion that are present and numeric, and their sum
\* in tenths
PresentSources ==
  {f \in {"idealista", "fotocasa", "realadvisor"} : input[f].t = "number"}
PresentSum ==
  (IF "idealista" \in PresentSources THEN input.idealista.n10 ELSE 0)
    + (IF "fotocasa" \in PresentSources THEN input.fotocasa.n10 ELSE 0)
    + (IF "realadvisor" \in PresentSources THEN input.realadvisor.n10 ELSE 0)

\* C14: the averaging strategy returns null exactly when none of idealista,
\* fotocasa and realadvisor is present and numeric; otherwise it returns
\* the mean of the fields that are present and numeric, and of those only,
\* rounded to the nearest integer (a mean that ends in .5 goes up, as
\* Math.round does): {3000, 3200, null} gives 3100.
C14_MeanOfPresentSources ==
  output.done =>
    LET n == Cardinality(PresentSources)
    IN /\ output.value = Null <=> n = 0
       /\ n > 0 => output.value = Num(MathRound(PresentSum, 10 * n))
       /\ input = JsonSources(JNum(30000), JNum(32000), JNull) =>
            output.value = Num(3100)

\* a run of exactly five digits that starts at index i of s, with a
\* character of the set stop, or no character at all, on each side
BoundedRunAt(s, i, stop) ==
  /\ i + CP_LEN - 1 <= Len(s)
  /\ \A k \in 0..(CP_LEN - 1) : s[i + k] \in Digits
  /\ i = 1 \/ s[i - 1] \in stop
  /\ i + CP_LEN > Len(s) \/ s[i + CP_LEN] \in stop
FirstBoundedRun(s, stop) ==
  LET hits == {i \in 1..Len(s) : BoundedRunAt(s, i, stop)}
  IN IF hits = {} THEN <<>>
     ELSE LET i == CHOOSE j \in hits : \A k \in hits : j <= k
          IN SubSeq(s, i, i + CP_LEN - 1)
AddressChars == {"0", "1", "2", "3", "8", "a", "_", " ", ","}

\* C16, as stated: the extractor returns a non-empty postal_code as it is;
\* otherwise the first run of exactly five digits of the address that has a
\* non-digit character or the end of the string on each side, and nothing
\* when there is no such run.
C16_DigitBoundedRun ==
  output.done =>
    output.value =
      IF input.postal_code # <<>> THEN input.postal_code
      ELSE FirstBoundedRun(input.address, AddressChars \ Digits)

\* C16, amended: the run has to be bounded by word boundaries: on each side
\* a character that is no letter, digit or underscore, or the end of the
\* string.
C16_WordBoundedRun ==
  output.done =>
    output.value =
      IF input.postal_code # <<>> THEN input.postal_code
      ELSE FirstBoundedRun(input.address, AddressChars \ WordChars)

C16_Witness ==
  /\ output.done
  /\ input.postal_code = <<>>
  /\ input.address = <<"a">> \o CP_MAYOR \o <<" ">> \o <<"0", "8", "0", "0", "1">>
  /\ output.value = <<"0", "8", "0", "0", "1">>

\* C15: whatever the order in which the calls of overlapping requests
\* return, the cache holds at most one row for each postal code, and after
\* an upsert that row is the one the last upsert for the key wrote, in each
\* column that upsertCache writes, with nothing kept from earlier rows.
C15_LastUpsertWins ==
  \A k \in CacheKeys :
    /\ Len(cache[k]) <= 1
    /\ lastUpsert[k] # <<>> =>
         LET u == lastUpsert[k][1]
         IN /\ Len(cache[k]) = 1
            /\ cache[k][1].price_m2 = u.price
            /\ cache[k][1].source = u.source
            /\ cache[k][1].fetched_at = u.at
            /\ cache[k][1].ttl_days = u.ttl_days

C15_Witness ==
  \E r1, r2 \in Reqs :
    /\ r1 # r2
    /\ Success(req[r1]) /\ Success(req[r2])
    /\ req[r1].cp = req[r2].cp
    /\ req[r1].had = "absent" /\ req[r2].had = "absent"
    /\ req[r1].lookup = "ok" /\ req[r2].lookup = "ok"
    /\ req[r1].upsert = "ok" /\ req[r2].upsert = "ok"
    /\ req[r1].price # req[r2].price
    /\ lastUpsert[req[r2].cp][1].by = r2
    /\ cache[req[r2].cp][1].price_m2 = req[r2].price

\* C17: every row of the cache has a key of five digits and a positive
\* price, whatever postal_code the requests carried and whatever the
\* provider returned.
C17_CacheRowsAreWellFormed ==
  \A k \in CacheKeys :
    cache[k] # <<>> =>
      /\ Len(k) = CP_LEN
      /\ \A i \in 1..Len(k) : k[i] \in Digits
      /\ \A i \in 1..Len(cache[k]) :
           /\ cache[k][i].price_m2 # Null
           /\ Val(cache[k][i].price_m2) > 0

\* a step of a request that passes on a cache write: the upsert that ends
\* well, after a provider call that returned a usable price
WriteBack(r) ==
  /\ req[r].pc = "upsertCache"
  /\ req[r].invoked
  /\ Truthy(req[r].provided)
  /\ req'[r].upsert = "ok"
  /\ \A k \in CacheKeys : k # req[r].cp => cache'[k] = cache[k]
  /\ cache'[req[r].cp] # <<>>

\* C18: the cache changes only in the step of an upsert that follows a
\* provider call with a usable price, and only under the key of that
\* request; a request answered from the cache, one for which the provider
\* had no price and one rejected by validation changes no row, and no step
\* removes a row.
C18_OnlyWriteBackChangesCache ==
  [][/\ cache' # cache => \E r \in Reqs : WriteBack(r)
     /\ \A k \in CacheKeys : cache[k] # <<>> => cache'[k] # <<>>
     /\ \A r \in Reqs :
          (req'[r].pc = "done" /\ req[r].pc # "done"
             /\ \/ req'[r].response.status = 400
                \/ req'[r].source \in {"cached", "na"}) =>
            /\ req'[r].calls.upsert = 0
            /\ req'[r].upsert = "none"]_vars

C18_Witness ==
  \E r \in Reqs :
    /\ Success(req[r])
    /\ req[r].had = "stale"
    /\ req[r].invoked
    /\ req[r].response.source = "na"
    /\ cache[req[r].cp] = <<CacheRow(Num(2501), "openai", 0, TTL_DAYS)>>

\* C19: after a 200 answer for lead_id L, leads holds a row for L whose
\* price_m2, valuation_price, valuation_source and valuation_confidence are
\* the ones of the answer, and leads holds the rows it held before, no more.
C19_AnswerIsPersisted ==
  /\ DOMAIN leads = ExistingLeads
  /\ \A r \in Reqs :
       Success(req[r]) =>
         LET resp == req[r].response
         IN /\ resp.lead_id \in DOMAIN leads
            /\ leads[resp.lead_id].price_m2 = resp.price_m2
            /\ leads[resp.lead_id].valuation_price = resp.valuation_price
            /\ leads[resp.lead_id].valuation_source = resp.source
            /\ leads[resp.lead_id].valuation_confidence = resp.confidence

\* C20: if every external call returns or throws in the end, every request
\* that the handler received is answered in the end; it has no response
\* before, its response is 200, 400 or 500, and the response once sent does
\* not change.
C20_ExactlyOneResponse ==
  /\ \A r \in Reqs : InFlight(req[r]) ~> Answered(req[r])
  /\ [](\A r \in Reqs :
          /\ InFlight(req[r]) => req[r].response = NoResponse
          /\ (Answered(req[r]) /\ Entered(req[r])) =>
               req[r].response.status \in {200, 400, 500})
  /\ [][\A r \in Reqs :
          (Answered(req[r]) /\ req'[r].response # req[r].response) =>
            nreq' = nreq + 1]_vars

C20_Witness ==
  \E r \in Reqs :
    /\ Answered(req[r])
    /\ req[r].calls.provider = 2
    /\ req[r].upsert = "throw"
    /\ req[r].response.status = 500

====
